---------------------------- MODULE Spec2Model ----------------------------
(***************************************************************************)
(* Model of cursor-status-bar (src/tauri/src-tauri/src).                   *)
(*                                                                         *)
(*   - lib.rs        : AppState behind a Mutex, setup, do_refresh cycles   *)
(*                     (startup, 60 s timer, manual), get_usage_data and   *)
(*                     get_error readers.                                  *)
(*   - cursor_api.rs : fetch_display_data, the aggregation of usage events *)
(*                     into UsageDisplayData.                              *)
(*   - models.rs     : TokenUsage::total_tokens, UsageEvent::cost_cents.   *)
(*   - token_extractor.rs : extract_token, extract_user_id_from_jwt.       *)
(*                                                                         *)
(* Representation choices:                                                 *)
(*   - Option<T> is a sequence: None is <<>>, Some(x) is <<x>>.            *)
(*   - Instants are integers counted in days since the Unix epoch (the     *)
(*     code counts milliseconds; 30 days in ms exceed TLC's 32-bit         *)
(*     integers).  A timestamp string is a sequence of characters holding  *)
(*     the decimal number in the same unit.  All numbers of the domain     *)
(*     are far inside chrono's representable range, so                     *)
(*     DateTime::from_timestamp_millis never returns None for them.        *)
(*   - f64 cents are integers; cost_dollars = cents / 100.0 is kept in     *)
(*     hundredths of a dollar (the same integer), which preserves the      *)
(*     order the sort compares.                                            *)
(*   - The iteration order of the HashMap by_model (std RandomState) is an *)
(*     input of the aggregation: a sequence listing its keys once each.    *)
(***************************************************************************)
EXTENDS Integers, Sequences, FiniteSets, TLC

VARIABLES
    \* ---- lib.rs: Mutex<AppState> and the tasks around it
    api,          \* AppState.api: None | Some("api")
    last_data,    \* AppState.last_data: None | Some(UsageDisplayData)
    error,        \* AppState.error: None | Some(message)
    lock,         \* owner of the Mutex: "free" | a cycle | a reader command
    pc,           \* position of setup and of each do_refresh task
    local,        \* per cycle: the locals of do_refresh / fetch_display_data
    cred,         \* environment: does extract_token() succeed right now
    \* ---- observation (history) variables
    net_calls,    \* per cycle: HTTP requests sent by the running cycle
    last_pub,     \* what the publish that released the Mutex last wrote
    \* ---- cursor_api.rs: the aggregation run on its own
    agg_in,       \* [billing_start, now, start_of_today, events]
    agg_hash,     \* HashMap iteration order of the latest run
    agg_out,      \* Some(result of the latest run), None before the first
    \* ---- token_extractor.rs: extract_token() run on its own
    tok_db,       \* the Cursor database as extract_token() finds it
    tok_out       \* Some(result of the latest call), None before the first

orch_vars == <<api, last_data, error, lock, pc, local, cred,
               net_calls, last_pub>>
agg_vars == <<agg_in, agg_hash, agg_out>>
tok_vars == <<tok_db, tok_out>>
vars == <<orch_vars, agg_vars, tok_vars>>

None == <<>>
Some(x) == <<x>>
Unwrap(opt) == opt[1]

(***************************************************************************)
(* Bounds and input domains                                                *)
(***************************************************************************)
\* longest event list handed to the aggregation
MaxEvents == 2

\* Duration::days(30), Duration::days(7)
ThirtyDays == 30
SevenDays == 7

\* Utc::now() when fetch_display_data runs (days since the epoch).  The two
\* HTTPS fetches have succeeded before, so the clock is a present-day one,
\* more than 30 days after the epoch.
NowValues == {40}
\* now - start_of_today: local midnight of today lies within the day before now
StartOfTodayOffsets == {1}
\* billing period starts the remote can report (epoch and before included)
BillingStarts == {-1, 0, 33}

\* event.timestamp strings: unparsable, and the decimals 5, 10, 33, 39
TimestampStrings == { <<"x">>, <<"5">>, <<"1", "0">>, <<"3", "3">>, <<"3", "9">> }
\* event.model
ModelNames == {None, Some("gpt")}
\* event.token_usage
TokenUsages ==
    { None,
      Some([input_tokens |-> Some(1), output_tokens |-> None,
            cache_write_tokens |-> None, cache_read_tokens |-> Some(2),
            total_cents |-> None]),
      Some([input_tokens |-> Some(1), output_tokens |-> Some(1),
            cache_write_tokens |-> Some(0), cache_read_tokens |-> None,
            total_cents |-> Some(5)]) }

UsageEvents ==
    [timestamp : TimestampStrings, model : ModelNames, token_usage : TokenUsages]

SeqsUpTo(S, n) == UNION { [1..k -> S] : k \in 0..n }

(***************************************************************************)
(* models.rs                                                               *)
(***************************************************************************)
unwrap_or(opt, default) == IF opt = None THEN default ELSE Unwrap(opt)

\* TokenUsage::total_tokens
total_tokens(t) ==
    unwrap_or(t.input_tokens, 0) + unwrap_or(t.output_tokens, 0)
        + unwrap_or(t.cache_write_tokens, 0) + unwrap_or(t.cache_read_tokens, 0)

\* UsageEvent::cost_cents
cost_cents(event) ==
    IF event.token_usage = None THEN 0
    ELSE unwrap_or(Unwrap(event.token_usage).total_cents, 0)

(***************************************************************************)
(* cursor_api.rs: timestamp parsing (lines 154-157)                        *)
(***************************************************************************)
Digits == {"0", "1", "2", "3", "4", "5", "6", "7", "8", "9"}

DigitValue(ch) ==
    CASE ch = "0" -> 0 [] ch = "1" -> 1 [] ch = "2" -> 2 [] ch = "3" -> 3
      [] ch = "4" -> 4 [] ch = "5" -> 5 [] ch = "6" -> 6 [] ch = "7" -> 7
      [] ch = "8" -> 8 [] ch = "9" -> 9

RECURSIVE DecimalValue(_)
DecimalValue(s) ==
    IF s = <<>> THEN 0
    ELSE 10 * DecimalValue(SubSeq(s, 1, Len(s) - 1)) + DigitValue(s[Len(s)])

\* str::parse::<f64>() on the strings of the domain: an optional sign and
\* one or more decimal digits give Ok(value), anything else gives Err.
ParseF64(s) ==
    LET signed == s /= <<>> /\ s[1] \in {"-", "+"}
        body == IF signed THEN Tail(s) ELSE s
    IN  IF body /= <<>> /\ \A i \in 1..Len(body) : body[i] \in Digits
        THEN [ok |-> TRUE,
              value |-> IF signed /\ s[1] = "-" THEN 0 - DecimalValue(body)
                                                 ELSE DecimalValue(body)]
        ELSE [ok |-> FALSE, value |-> 0]

\* faulty variant: a parse failure yields the current instant, not the epoch
EventDate_NowOnFailure(event) ==
    LET r == ParseF64(event.timestamp)
    IN  IF r.ok THEN r.value ELSE 40

\* event.timestamp.parse().unwrap_or(0.0), cast to i64, turned to a DateTime
\* (UNIX_EPOCH = 0 when out of range)
EventDate(event) ==
    LET r == ParseF64(event.timestamp)
    IN  IF r.ok THEN r.value ELSE 0

(***************************************************************************)
(* token_extractor.rs: decoding the JWT (lines 80-105).  A string is a     *)
(* sequence of one-character strings, a byte an integer in 0..255.         *)
(***************************************************************************)
\* the alphabet of URL_SAFE_NO_PAD: the symbol of value v is at v + 1
B64Alphabet ==
    << "A", "B", "C", "D", "E", "F", "G", "H", "I", "J", "K", "L", "M",
       "N", "O", "P", "Q", "R", "S", "T", "U", "V", "W", "X", "Y", "Z",
       "a", "b", "c", "d", "e", "f", "g", "h", "i", "j", "k", "l", "m",
       "n", "o", "p", "q", "r", "s", "t", "u", "v", "w", "x", "y", "z",
       "0", "1", "2", "3", "4", "5", "6", "7", "8", "9", "-", "_" >>

B64Value(ch) == CHOOSE v \in 0..63 : B64Alphabet[v + 1] = ch

\* the printable ASCII characters: the character of code b is at b - 31
\* (codes 92 and 96 are written "backslash" and "backtick")
Printable ==
    << " ", "!", "\"", "#", "$", "%", "&", "'", "(", ")", "*", "+", ",",
       "-", ".", "/", "0", "1", "2", "3", "4", "5", "6", "7", "8", "9",
       ":", ";", "<", "=", ">", "?", "@", "A", "B", "C", "D", "E", "F",
       "G", "H", "I", "J", "K", "L", "M", "N", "O", "P", "Q", "R", "S",
       "T", "U", "V", "W", "X", "Y", "Z", "[", "backslash", "]", "^", "_", "backtick",
       "a", "b", "c", "d", "e", "f", "g", "h", "i", "j", "k", "l", "m",
       "n", "o", "p", "q", "r", "s", "t", "u", "v", "w", "x", "y", "z",
       "{", "|", "}", "~" >>

Chr(b) == Printable[b - 31]

\* the bytes of a run of 6-bit values: four values give three bytes; a last
\* group of two or three values gives one or two bytes and must leave no
\* set bit behind; a last group of one value is an invalid length
RECURSIVE DecodeSextets(_)
DecodeSextets(v) ==
    LET n == Len(v)
        b1 == v[1] * 4 + v[2] \div 16
        b2 == (v[2] % 16) * 16 + v[3] \div 4
        b3 == (v[3] % 4) * 64 + v[4]
    IN  CASE n = 0 -> Some(<<>>)
          [] n = 1 -> None
          [] n = 2 -> IF v[2] % 16 = 0 THEN Some(<<b1>>) ELSE None
          [] n = 3 -> IF v[3] % 4 = 0 THEN Some(<<b1, b2>>) ELSE None
          [] OTHER -> LET rest == DecodeSextets(SubSeq(v, 5, n))
                      IN  IF rest = None THEN None
                          ELSE Some(<<b1, b2, b3>> \o Unwrap(rest))

\* URL_SAFE_NO_PAD.decode(segment): None for Err (a symbol outside the
\* alphabet, '=' included, an invalid length, trailing bits)
URL_SAFE_NO_PAD_decode(segment) ==
    IF \E i \in 1..Len(segment) :
            \A v \in 1..64 : B64Alphabet[v] /= segment[i]
    THEN None
    ELSE DecodeSextets([i \in 1..Len(segment) |-> B64Value(segment[i])])

\* serde_json::Value, for the JSON texts of the domain: strings without
\* escapes, unsigned integers, objects of such values, no white space
JsonNull == [kind |-> "null", text |-> <<>>, members |-> <<>>]
JsonFail == [ok |-> FALSE, value |-> JsonNull, rest |-> <<>>]

\* '"', the characters up to the next '"', '"'
ParseJsonString(t) ==
    IF t = <<>> \/ t[1] /= "\"" THEN JsonFail
    ELSE LET closing == { i \in 2..Len(t) : t[i] = "\"" }
         IN  IF closing = {} THEN JsonFail
             ELSE LET e == CHOOSE i \in closing : \A j \in closing : i <= j
                  IN  [ok |-> TRUE,
                       value |-> [kind |-> "string", text |-> SubSeq(t, 2, e - 1),
                                  members |-> <<>>],
                       rest |-> SubSeq(t, e + 1, Len(t))]

\* "0", or a digit other than 0 followed by digits
ParseJsonNumber(t) ==
    LET ends == { k \in 1..Len(t) : \A i \in 1..k : t[i] \in Digits }
    IN  IF ends = {} THEN JsonFail
        ELSE LET k == CHOOSE x \in ends : \A y \in ends : y <= x
             IN  IF k > 1 /\ t[1] = "0" THEN JsonFail
                 ELSE [ok |-> TRUE,
                       value |-> [kind |-> "number", text |-> SubSeq(t, 1, k),
                                  members |-> <<>>],
                       rest |-> SubSeq(t, k + 1, Len(t))]

RECURSIVE ParseJsonValue(_), ParseJsonMembers(_, _)
\* the members of an object from a key on, up to the closing '}'
ParseJsonMembers(t, acc) ==
    LET k == ParseJsonString(t)
    IN  IF ~k.ok \/ k.rest = <<>> \/ k.rest[1] /= ":" THEN JsonFail
        ELSE LET v == ParseJsonValue(Tail(k.rest))
             IN  IF ~v.ok \/ v.rest = <<>> THEN JsonFail
                 ELSE LET more == Append(acc, [key |-> k.value.text,
                                               value |-> v.value])
                      IN  IF v.rest[1] = "}"
                          THEN [ok |-> TRUE,
                                value |-> [kind |-> "object", text |-> <<>>,
                                           members |-> more],
                                rest |-> Tail(v.rest)]
                          ELSE IF v.rest[1] = ","
                               THEN ParseJsonMembers(Tail(v.rest), more)
                               ELSE JsonFail

ParseJsonValue(t) ==
    IF t = <<>> THEN JsonFail
    ELSE IF t[1] = "\"" THEN ParseJsonString(t)
    ELSE IF t[1] \in Digits THEN ParseJsonNumber(t)
    ELSE IF t[1] = "{"
         THEN IF Len(t) >= 2 /\ t[2] = "}"
              THEN [ok |-> TRUE,
                    value |-> [kind |-> "object", text |-> <<>>, members |-> <<>>],
                    rest |-> SubSeq(t, 3, Len(t))]
              ELSE ParseJsonMembers(Tail(t), <<>>)
    ELSE JsonFail

\* serde_json::from_slice(&payload_bytes): None for Err (bytes that are not
\* one JSON value; every byte of a JSON text of the domain is printable ASCII)
from_slice(bytes) ==
    IF \E i \in 1..Len(bytes) : bytes[i] < 32 \/ bytes[i] > 126 THEN None
    ELSE LET r == ParseJsonValue([i \in 1..Len(bytes) |-> Chr(bytes[i])])
         IN  IF r.ok /\ r.rest = <<>> THEN Some(r.value) ELSE None

\* payload[key]: Null unless payload is an object holding the key (the
\* value stored last for it)
Index(payload, key) ==
    LET hits == { i \in 1..Len(payload.members) : payload.members[i].key = key }
    IN  IF payload.kind /= "object" \/ hits = {} THEN JsonNull
        ELSE payload.members[CHOOSE i \in hits : \A j \in hits : j <= i].value

\* Value::as_str
as_str(value) == IF value.kind = "string" THEN Some(value.text) ELSE None

\* str::split(sep).collect(): the pieces between the separators
RECURSIVE split(_, _)
split(s, sep) ==
    LET at == { i \in 1..Len(s) : s[i] = sep }
    IN  IF at = {} THEN <<s>>
        ELSE LET i == CHOOSE x \in at : \A y \in at : x <= y
             IN  <<SubSeq(s, 1, i - 1)>> \o split(SubSeq(s, i + 1, Len(s)), sep)

\* Iterator::nth(n)
nth(parts, n) == IF n < Len(parts) THEN Some(parts[n + 1]) ELSE None

Ok(v) == [ok |-> TRUE, value |-> v, err |-> "none"]
Err(e) == [ok |-> FALSE, value |-> <<>>, err |-> e]

\* faulty variant: everything behind the first '|' (splitn(2, '|'))
UserIdOfSub_AfterFirstPipe(sub) ==
    LET at == { i \in 1..Len(sub) : sub[i] = "|" }
    IN  IF at = {} THEN sub
        ELSE SubSeq(sub, (CHOOSE x \in at : \A y \in at : x <= y) + 1, Len(sub))

\* sub.split('|').nth(1).unwrap_or(sub).to_string()   (lines 98-102)
UserIdOfSub(sub) == unwrap_or(nth(split(sub, "|"), 1), sub)

extract_user_id_from_jwt(jwt) ==
    LET parts == split(jwt, ".")
        payload_bytes == URL_SAFE_NO_PAD_decode(parts[2])
        payload == from_slice(Unwrap(payload_bytes))
        sub == as_str(Index(Unwrap(payload), <<"s", "u", "b">>))
    IN  IF Len(parts) < 2 THEN Err("InvalidJwt")
        ELSE IF payload_bytes = None THEN Err("InvalidJwt")
        ELSE IF payload = None THEN Err("InvalidJwt")
        ELSE IF sub = None THEN Err("MissingSubClaim")
        ELSE Ok(UserIdOfSub(Unwrap(sub)))

\* format!("{}%3A%3A{}", user_id, jwt_token)   (line 70)
SessionToken(user_id, jwt_token) ==
    user_id \o <<"%", "3", "A", "%", "3", "A">> \o jwt_token

\* extract_token() on a database in state db: the file is missing, cannot
\* be opened, the query fails, there is no row, or the row holds db.jwt
extract_token(db) ==
    CASE db.kind = "missing" -> Err("DatabaseNotFound")
      [] db.kind = "unopenable" -> Err("CannotOpen")
      [] db.kind = "query_failed" -> Err("QueryFailed")
      [] db.kind = "no_rows" -> Err("TokenNotFound")
      [] db.kind = "row" ->
            LET user_id == extract_user_id_from_jwt(db.jwt)
            IN  IF ~user_id.ok THEN Err(user_id.err)
                ELSE Ok([session_token |-> SessionToken(user_id.value, db.jwt),
                         user_id |-> user_id.value])

(***************************************************************************)
(* The access tokens the Cursor database can hold                          *)
(***************************************************************************)
\* longest sub claim of an access token
MaxSubLen == 3

Ord(ch) == 31 + (CHOOSE i \in 1..95 : Printable[i] = ch)

\* base64 without padding, as the issuer of the token writes it
RECURSIVE EncodeBytes(_)
EncodeBytes(b) ==
    LET n == Len(b)
    IN  CASE n = 0 -> <<>>
          [] n = 1 -> << b[1] \div 4, (b[1] % 4) * 16 >>
          [] n = 2 -> << b[1] \div 4, (b[1] % 4) * 16 + b[2] \div 16,
                         (b[2] % 16) * 4 >>
          [] OTHER -> << b[1] \div 4, (b[1] % 4) * 16 + b[2] \div 16,
                         (b[2] % 16) * 4 + b[3] \div 64, b[3] % 64 >>
                        \o EncodeBytes(SubSeq(b, 4, n))

Base64Url(text) ==
    LET v == EncodeBytes([i \in 1..Len(text) |-> Ord(text[i])])
    IN  [i \in 1..Len(v) |-> B64Alphabet[v[i] + 1]]

Quoted(s) == <<"\"">> \o s \o <<"\"">>
SubMember(s) == Quoted(<<"s", "u", "b">>) \o <<":">> \o Quoted(s)
ExpMember == Quoted(<<"e", "x", "p">>) \o <<":", "5">>

\* {"sub":"<s>"}  and  {"exp":5,"sub":"<s>"}
PayloadOnlySub(s) == <<"{">> \o SubMember(s) \o <<"}">>
PayloadExpSub(s) == <<"{">> \o ExpMember \o <<",">> \o SubMember(s) \o <<"}">>

SubChars == {"a", "b", "|"}
SubClaims == SeqsUpTo(SubChars, MaxSubLen)

\* header.payload.signature  and  header.payload
Jwt3(payload_text) == <<"h", ".">> \o Base64Url(payload_text) \o <<".", "s">>
Jwt2(payload_text) == <<"h", ".">> \o Base64Url(payload_text)

\* payloads without a string sub claim:  {}  {"exp":5}  {"sub":5}  5  "a|b"
NoSubPayloads ==
    { <<"{", "}">>,
      <<"{">> \o ExpMember \o <<"}">>,
      <<"{">> \o Quoted(<<"s", "u", "b">>) \o <<":", "5", "}">>,
      <<"5">>,
      Quoted(<<"a", "|", "b">>) }

\* tokens that are no JWT: one segment, the empty string, an empty payload,
\* a padded payload (e30= for {}), a payload of invalid length, a payload
\* with trailing bits (e31), and the payloads  {"sub":"a|b"  and  {"sub":a}
NotJwts ==
    { <<"h">>, <<>>, <<"h", ".", ".", "s">>,
      <<"h", ".", "e", "3", "0", "=", ".", "s">>,
      <<"h", ".", "e", "3", "0", "e", "3", ".", "s">>,
      <<"h", ".", "e", "3", "1", ".", "s">>,
      Jwt3(<<"{">> \o SubMember(<<"a", "|", "b">>)),
      Jwt3(<<"{">> \o Quoted(<<"s", "u", "b">>) \o <<":", "a", "}">>) }

Jwts ==
    { Jwt3(PayloadOnlySub(s)) : s \in SubClaims }
        \cup { Jwt2(PayloadExpSub(s)) : s \in SubClaims }
        \cup { Jwt3(p) : p \in NoSubPayloads }
        \cup NotJwts

TokDbStates ==
    { [kind |-> k, jwt |-> <<>>] :
        k \in {"missing", "unopenable", "query_failed", "no_rows"} }
        \cup { [kind |-> "row", jwt |-> j] : j \in Jwts }

(***************************************************************************)
(* cursor_api.rs: the aggregation loop (lines 129-186)                     *)
(***************************************************************************)
\* faulty variant: an exclusive lower bound
InWindow_Exclusive(event_date, bound) == event_date > bound

\* the comparisons  event_date >= bound  of lines 160, 171, 176, 181
InWindow(event_date, bound) == event_date >= bound

\* faulty variant: insert() in place of entry(): the model's tuple starts over
ByModelAdd_Overwrite(by_model, model, cents, tokens) ==
    (model :> [count |-> 1, cents |-> cents, tokens |-> tokens]) @@ by_model

\* by_model.entry(model).or_insert((0, 0.0, 0)) followed by the three +=
ByModelAdd(by_model, model, cents, tokens) ==
    LET old == IF model \in DOMAIN by_model THEN by_model[model]
               ELSE [count |-> 0, cents |-> 0, tokens |-> 0]
    IN  (model :> [count |-> old.count + 1, cents |-> old.cents + cents,
                   tokens |-> old.tokens + tokens]) @@ by_model

\* a (cents, reqs, tokens) accumulator gets the event when cond holds
Bucket(b, cond, cents, tokens) ==
    IF cond THEN [cents |-> b.cents + cents, reqs |-> b.reqs + 1,
                  tokens |-> b.tokens + tokens]
    ELSE b

ZeroBucket == [cents |-> 0, reqs |-> 0, tokens |-> 0]

AccInit ==
    [by_model |-> <<>>, total_cents |-> 0, total_tokens |-> 0,
     today |-> ZeroBucket, week7 |-> ZeroBucket, days30 |-> ZeroBucket]

\* faulty variant: the bounds of the 7-day and the 30-day window are swapped
LoopBody_SwappedBounds(acc, event, billing_start, start_of_today, seven_days_ago, thirty_days_ago) ==
    LET model == unwrap_or(event.model, "unknown")
        cents == cost_cents(event)
        tokens == IF event.token_usage = None THEN 0
                  ELSE total_tokens(Unwrap(event.token_usage))
        event_date == EventDate(event)
        billed == InWindow(event_date, billing_start)
    IN  [by_model |-> IF billed THEN ByModelAdd(acc.by_model, model, cents, tokens)
                      ELSE acc.by_model,
         total_cents |-> IF billed THEN acc.total_cents + cents ELSE acc.total_cents,
         total_tokens |-> IF billed THEN acc.total_tokens + tokens ELSE acc.total_tokens,
         today |-> Bucket(acc.today, InWindow(event_date, start_of_today), cents, tokens),
         week7 |-> Bucket(acc.week7, InWindow(event_date, thirty_days_ago), cents, tokens),
         days30 |-> Bucket(acc.days30, InWindow(event_date, seven_days_ago), cents, tokens)]

\* one iteration of  for event in &events
LoopBody(acc, event, billing_start, start_of_today, seven_days_ago, thirty_days_ago) ==
    LET model == unwrap_or(event.model, "unknown")
        cents == cost_cents(event)
        tokens == IF event.token_usage = None THEN 0
                  ELSE total_tokens(Unwrap(event.token_usage))
        event_date == EventDate(event)
        billed == InWindow(event_date, billing_start)
    IN  [by_model |-> IF billed THEN ByModelAdd(acc.by_model, model, cents, tokens)
                      ELSE acc.by_model,
         total_cents |-> IF billed THEN acc.total_cents + cents ELSE acc.total_cents,
         total_tokens |-> IF billed THEN acc.total_tokens + tokens ELSE acc.total_tokens,
         today |-> Bucket(acc.today, InWindow(event_date, start_of_today), cents, tokens),
         week7 |-> Bucket(acc.week7, InWindow(event_date, seven_days_ago), cents, tokens),
         days30 |-> Bucket(acc.days30, InWindow(event_date, thirty_days_ago), cents, tokens)]

RECURSIVE Loop(_, _, _, _, _, _)
Loop(acc, events, billing_start, start_of_today, seven_days_ago, thirty_days_ago) ==
    IF events = <<>> THEN acc
    ELSE Loop(LoopBody(acc, Head(events), billing_start, start_of_today,
                       seven_days_ago, thirty_days_ago),
              Tail(events), billing_start, start_of_today, seven_days_ago,
              thirty_days_ago)

(***************************************************************************)
(* cursor_api.rs: line items (lines 188-200)                               *)
(***************************************************************************)
\* the orders in which a HashMap with key set S can be iterated
IterationOrders(S) ==
    { o \in [1..Cardinality(S) -> S] : \A k \in S : \E i \in DOMAIN o : o[i] = k }

\* by_model.into_iter().map(..).collect(), iterated in hash_order
CollectLineItems(by_model, hash_order) ==
    [i \in 1..Len(hash_order) |->
        [model_name |-> hash_order[i],
         request_count |-> by_model[hash_order[i]].count,
         cost_dollars |-> by_model[hash_order[i]].cents,
         total_tokens |-> by_model[hash_order[i]].tokens]]

\* sort_by(|a, b| b.cost_dollars.partial_cmp(&a.cost_dollars)) is a stable
\* sort: x goes behind every item that does not cost less
RECURSIVE InsertByCost(_, _)
InsertByCost(sorted, x) ==
    IF sorted = <<>> THEN <<x>>
    ELSE IF Head(sorted).cost_dollars >= x.cost_dollars
         THEN <<Head(sorted)>> \o InsertByCost(Tail(sorted), x)
         ELSE <<x>> \o sorted

RECURSIVE SortByCostDesc(_)
SortByCostDesc(items) ==
    IF items = <<>> THEN <<>>
    ELSE InsertByCost(SortByCostDesc(SubSeq(items, 1, Len(items) - 1)),
                      items[Len(items)])

RECURSIVE SumRequestCount(_)
SumRequestCount(items) ==
    IF items = <<>> THEN 0
    ELSE Head(items).request_count + SumRequestCount(Tail(items))

PeriodSummary(label, b) ==
    [label |-> label, requests |-> b.reqs, spend_dollars |-> b.cents,
     tokens |-> b.tokens]

\* fetch_display_data from line 110 on, given the two fetched values, the
\* two clock readings and the HashMap's iteration order
Aggregate(billing_start, now, start_of_today, events, hash_order) ==
    LET thirty_days_ago == now - ThirtyDays
        seven_days_ago == now - SevenDays
        acc == Loop(AccInit, events, billing_start, start_of_today,
                    seven_days_ago, thirty_days_ago)
        line_items == SortByCostDesc(CollectLineItems(acc.by_model, hash_order))
    IN  [total_requests |-> SumRequestCount(line_items),
         total_spend_dollars |-> acc.total_cents,
         total_tokens |-> acc.total_tokens,
         line_items |-> line_items,
         billing_period_start |-> billing_start,
         today |-> PeriodSummary("Today", acc.today),
         last7_days |-> PeriodSummary("Last 7 Days", acc.week7),
         last30_days |-> PeriodSummary("Last 30 Days", acc.days30)]

\* the keys by_model holds after the loop
ByModelKeys(billing_start, now, start_of_today, events) ==
    DOMAIN Loop(AccInit, events, billing_start, start_of_today,
                now - SevenDays, now - ThirtyDays).by_model

(***************************************************************************)
(* The aggregation on its own: inputs drawn at the start, every run draws  *)
(* a HashMap iteration order                                               *)
(***************************************************************************)
AggInputs ==
    { [billing_start |-> b, now |-> n, start_of_today |-> n - d, events |-> ev] :
        b \in BillingStarts, n \in NowValues, d \in StartOfTodayOffsets,
        ev \in SeqsUpTo(UsageEvents, MaxEvents) }

AggKeys == ByModelKeys(agg_in.billing_start, agg_in.now, agg_in.start_of_today,
                       agg_in.events)

\* one call of the aggregation on agg_in
AggRun ==
    \E o \in IterationOrders(AggKeys) :
        /\ agg_hash' = o
        /\ agg_out' = Some(Aggregate(agg_in.billing_start, agg_in.now,
                                     agg_in.start_of_today, agg_in.events, o))
        /\ UNCHANGED <<agg_in, orch_vars, tok_vars>>

(***************************************************************************)
(* lib.rs: the tasks spawned by setup and the refresh command              *)
(***************************************************************************)
\* the do_refresh callers: the initial refresh (lines 241-244), the 60 s
\* loop (lines 247-253), the refresh command / tray menu item (lines 37-42,
\* 211-216)
Cycles == {"startup", "timer", "manual"}

\* the commands that read the shared state (lines 22-33)
Readers == {"get_usage_data", "get_error"}

TokenErrorMsg == "Token error"
ApiErrorMsg == "API error"

\* what the two endpoints can answer in a refresh cycle
ApiBillingStarts == {0, 33}
ApiEventLists ==
    { << [timestamp |-> <<"1", "0">>, model |-> Some("gpt"),
          token_usage |-> Some([input_tokens |-> Some(1), output_tokens |-> Some(1),
                                cache_write_tokens |-> Some(0),
                                cache_read_tokens |-> None,
                                total_cents |-> Some(5)])] >> }

\* had_data, had_error observe whether last_data / error were set when the
\* cycle took the Mutex to publish
NoLocal == [billing_start |-> 0, now |-> 0, data |-> None,
            had_data |-> FALSE, had_error |-> FALSE]
NoPub == [kind |-> "none", data |-> None,
          had_data |-> FALSE, had_error |-> FALSE]

\* where a task waits once do_refresh has returned
Rest(c) == CASE c = "startup" -> "finished"
             [] c = "timer" -> "sleep"
             [] c = "manual" -> "idle"

Running(c) == pc[c] \notin {"unspawned", "finished", "sleep", "idle"}

\* do_refresh returns: its locals are gone
Return(c) ==
    /\ pc' = [pc EXCEPT ![c] = Rest(c)]
    /\ local' = [local EXCEPT ![c] = NoLocal]
    /\ net_calls' = [net_calls EXCEPT ![c] = 0]

\* the setup closure of run(): extract the token, store the API handle or
\* the error, spawn the initial refresh and the periodic loop
Setup ==
    /\ pc["setup"] = "run"
    /\ IF cred
       THEN api' = Some("api") /\ UNCHANGED error
       ELSE error' = Some(TokenErrorMsg) /\ UNCHANGED api
    /\ pc' = [pc EXCEPT !["setup"] = "done", !["startup"] = "check_lock",
                        !["timer"] = "sleep", !["manual"] = "idle"]
    /\ UNCHANGED <<last_data, lock, local, cred, net_calls, last_pub, agg_vars, tok_vars>>

\* the 60 s sleep of the periodic loop ends, or a manual refresh is asked
\* for: do_refresh is entered
Trigger(c) ==
    /\ c \in {"timer", "manual"}
    /\ pc[c] = Rest(c)
    /\ pc' = [pc EXCEPT ![c] = "check_lock"]
    /\ UNCHANGED <<api, last_data, error, lock, local, cred, net_calls, last_pub,
                   agg_vars, tok_vars>>

\* let s = state.lock().unwrap();   (line 56)
CheckLock(c) ==
    /\ pc[c] = "check_lock"
    /\ lock = "free"
    /\ lock' = c
    /\ pc' = [pc EXCEPT ![c] = "check_api"]
    /\ UNCHANGED <<api, last_data, error, local, cred, net_calls, last_pub, agg_vars, tok_vars>>

\* faulty variant: the guard of the check lives on to the end of do_refresh
CheckApi_KeepGuard(c) ==
    /\ pc[c] = "check_api"
    /\ lock = c
    /\ IF api = None
       THEN Return(c) /\ lock' = "free"
       ELSE /\ pc' = [pc EXCEPT ![c] = "extract"]
            /\ UNCHANGED <<local, net_calls, lock>>
    /\ UNCHANGED <<api, last_data, error, cred, last_pub, agg_vars, tok_vars>>

\* if s.api.is_none() { return; }  and the guard dropped at the block's end
CheckApi(c) ==
    /\ pc[c] = "check_api"
    /\ lock = c
    /\ lock' = "free"
    /\ IF api = None
       THEN Return(c)
       ELSE /\ pc' = [pc EXCEPT ![c] = "extract"]
            /\ UNCHANGED <<local, net_calls>>
    /\ UNCHANGED <<api, last_data, error, cred, last_pub, agg_vars, tok_vars>>

\* token_extractor::extract_token() (line 64); on Ok the new CursorApi
\* sends the billing-period request and the task is suspended on it
Extract(c) ==
    /\ pc[c] = "extract"
    /\ IF cred
       THEN /\ pc' = [pc EXCEPT ![c] = "fetch_billing"]
            /\ net_calls' = [net_calls EXCEPT ![c] = @ + 1]
       ELSE /\ pc' = [pc EXCEPT ![c] = "tokerr_lock"]
            /\ UNCHANGED net_calls
    /\ UNCHANGED <<api, last_data, error, lock, local, cred, last_pub, agg_vars, tok_vars>>

\* Err(e): let mut s = state.lock().unwrap();   (line 67)
TokErrLock(c) ==
    /\ pc[c] = "tokerr_lock"
    /\ lock = "free"
    /\ lock' = c
    /\ pc' = [pc EXCEPT ![c] = "tokerr_error"]
    /\ local' = [local EXCEPT ![c].had_data = (last_data /= None),
                              ![c].had_error = (error /= None)]
    /\ UNCHANGED <<api, last_data, error, cred, net_calls, last_pub, agg_vars, tok_vars>>

\* s.error = Some(format!("Token error: {}", e));   (line 68)
TokErrSetError(c) ==
    /\ pc[c] = "tokerr_error"
    /\ error' = Some(TokenErrorMsg)
    /\ pc' = [pc EXCEPT ![c] = "tokerr_data"]
    /\ UNCHANGED <<api, last_data, lock, local, cred, net_calls, last_pub, agg_vars, tok_vars>>

\* faulty variant: the token-error arm does not clear last_data
TokErrClearData_KeepData(c) ==
    /\ pc[c] = "tokerr_data"
    /\ lock' = "free"
    /\ Return(c)
    /\ last_pub' = [kind |-> "tokerr", data |-> None,
                    had_data |-> local[c].had_data, had_error |-> local[c].had_error]
    /\ UNCHANGED <<api, last_data, error, cred, agg_vars, tok_vars>>

\* s.last_data = None; ... return;   (lines 69-71, the guard dropped)
TokErrClearData(c) ==
    /\ pc[c] = "tokerr_data"
    /\ last_data' = None
    /\ lock' = "free"
    /\ Return(c)
    /\ last_pub' = [kind |-> "tokerr", data |-> None,
                    had_data |-> local[c].had_data, had_error |-> local[c].had_error]
    /\ UNCHANGED <<api, error, cred, agg_vars, tok_vars>>

\* fetch_billing_period_start().await? returns (cursor_api.rs line 109);
\* on Ok, now is read and the usage-events request is sent (lines 110-116)
BillingResponse(c) ==
    /\ pc[c] = "fetch_billing"
    /\ \/ \E b \in ApiBillingStarts, n \in NowValues :
            /\ local' = [local EXCEPT ![c].billing_start = b, ![c].now = n]
            /\ pc' = [pc EXCEPT ![c] = "fetch_events"]
            /\ net_calls' = [net_calls EXCEPT ![c] = @ + 1]
       \/ /\ pc' = [pc EXCEPT ![c] = "apierr_lock"]
          /\ UNCHANGED <<local, net_calls>>
    /\ UNCHANGED <<api, last_data, error, lock, cred, last_pub, agg_vars, tok_vars>>

\* fetch_usage_events(..).await? returns (cursor_api.rs line 116); on Ok the
\* events are aggregated (lines 118-226) and do_refresh gets Ok(data)
EventsResponse(c) ==
    /\ pc[c] = "fetch_events"
    /\ \/ \E ev \in ApiEventLists, d \in StartOfTodayOffsets :
            \E o \in IterationOrders(ByModelKeys(local[c].billing_start,
                                     local[c].now, local[c].now - d, ev)) :
                /\ local' = [local EXCEPT ![c].data =
                                Some(Aggregate(local[c].billing_start, local[c].now,
                                               local[c].now - d, ev, o))]
                /\ pc' = [pc EXCEPT ![c] = "ok_lock"]
       \/ /\ pc' = [pc EXCEPT ![c] = "apierr_lock"]
          /\ UNCHANGED local
    /\ UNCHANGED <<api, last_data, error, lock, cred, net_calls, last_pub, agg_vars, tok_vars>>

\* Ok(data): let mut s = state.lock().unwrap();   (line 96)
OkLock(c) ==
    /\ pc[c] = "ok_lock"
    /\ lock = "free"
    /\ lock' = c
    /\ pc' = [pc EXCEPT ![c] = "ok_data"]
    /\ local' = [local EXCEPT ![c].had_data = (last_data /= None),
                              ![c].had_error = (error /= None)]
    /\ UNCHANGED <<api, last_data, error, cred, net_calls, last_pub, agg_vars, tok_vars>>

\* faulty variant: the published snapshot is updated in place and keeps
\* its old line items
OkSetData_Merge(c) ==
    /\ pc[c] = "ok_data"
    /\ last_data' = IF last_data = None THEN local[c].data
                    ELSE Some([Unwrap(local[c].data) EXCEPT
                                 !.line_items = Unwrap(last_data).line_items])
    /\ pc' = [pc EXCEPT ![c] = "ok_error"]
    /\ UNCHANGED <<api, error, lock, local, cred, net_calls, last_pub, agg_vars, tok_vars>>

\* s.last_data = Some(data);   (line 97)
OkSetData(c) ==
    /\ pc[c] = "ok_data"
    /\ last_data' = local[c].data
    /\ pc' = [pc EXCEPT ![c] = "ok_error"]
    /\ UNCHANGED <<api, error, lock, local, cred, net_calls, last_pub, agg_vars, tok_vars>>

\* faulty variant: the success arm does not clear the error
OkClearError_KeepError(c) ==
    /\ pc[c] = "ok_error"
    /\ lock' = "free"
    /\ Return(c)
    /\ last_pub' = [kind |-> "ok", data |-> local[c].data,
                    had_data |-> local[c].had_data, had_error |-> local[c].had_error]
    /\ UNCHANGED <<api, last_data, error, cred, agg_vars, tok_vars>>

\* s.error = None;   (line 98) and the guard dropped at the arm's end
OkClearError(c) ==
    /\ pc[c] = "ok_error"
    /\ error' = None
    /\ lock' = "free"
    /\ Return(c)
    /\ last_pub' = [kind |-> "ok", data |-> local[c].data,
                    had_data |-> local[c].had_data, had_error |-> local[c].had_error]
    /\ UNCHANGED <<api, last_data, cred, agg_vars, tok_vars>>

\* Err(e): let mut s = state.lock().unwrap();   (line 104)
ApiErrLock(c) ==
    /\ pc[c] = "apierr_lock"
    /\ lock = "free"
    /\ lock' = c
    /\ pc' = [pc EXCEPT ![c] = "apierr_error"]
    /\ local' = [local EXCEPT ![c].had_data = (last_data /= None),
                              ![c].had_error = (error /= None)]
    /\ UNCHANGED <<api, last_data, error, cred, net_calls, last_pub, agg_vars, tok_vars>>

\* faulty variant: the API-error arm clears last_data as the token-error
\* arm does
ApiErrSetError_ClearData(c) ==
    /\ pc[c] = "apierr_error"
    /\ error' = Some(ApiErrorMsg)
    /\ last_data' = None
    /\ lock' = "free"
    /\ Return(c)
    /\ last_pub' = [kind |-> "apierr", data |-> None,
                    had_data |-> local[c].had_data, had_error |-> local[c].had_error]
    /\ UNCHANGED <<api, cred, agg_vars, tok_vars>>

\* s.error = Some(format!("API error: {}", e));   (line 105), guard dropped
ApiErrSetError(c) ==
    /\ pc[c] = "apierr_error"
    /\ error' = Some(ApiErrorMsg)
    /\ lock' = "free"
    /\ Return(c)
    /\ last_pub' = [kind |-> "apierr", data |-> None,
                    had_data |-> local[c].had_data, had_error |-> local[c].had_error]
    /\ UNCHANGED <<api, last_data, cred, agg_vars, tok_vars>>

\* get_usage_data / get_error: let state = state.lock()   (lines 24, 31)
ReaderLock(r) ==
    /\ pc["setup"] = "done"
    /\ lock = "free"
    /\ lock' = r
    /\ UNCHANGED <<api, last_data, error, pc, local, cred, net_calls, last_pub,
                   agg_vars, tok_vars>>

\* Ok(state.last_data.clone()) / Ok(state.error.clone()), the guard dropped
ReaderReturn(r) ==
    /\ lock = r
    /\ lock' = "free"
    /\ UNCHANGED <<api, last_data, error, pc, local, cred, net_calls, last_pub,
                   agg_vars, tok_vars>>

\* what the reader holding the Mutex returns
get_usage_data == last_data
get_error == error

\* the user logs in to or out of Cursor: the stored access token appears
\* or disappears
CredChange ==
    /\ cred' = ~cred
    /\ UNCHANGED <<api, last_data, error, lock, pc, local, net_calls, last_pub,
                   agg_vars, tok_vars>>

AggIdle ==
    /\ agg_in = [billing_start |-> 0, now |-> 40, start_of_today |-> 40,
                 events |-> <<>>]
    /\ agg_hash = <<>>
    /\ agg_out = None

TokIdle ==
    /\ tok_db = [kind |-> "missing", jwt |-> <<>>]
    /\ tok_out = None

\* the state managed by run() (lines 167-171), before setup
OrchInit ==
    /\ api = None
    /\ last_data = None
    /\ error = None
    /\ lock = "free"
    /\ pc = [t \in {"setup"} \cup Cycles |-> IF t = "setup" THEN "run" ELSE "unspawned"]
    /\ local = [c \in Cycles |-> NoLocal]
    /\ net_calls = [c \in Cycles |-> 0]
    /\ last_pub = NoPub

Init ==
    /\ OrchInit
    /\ cred \in BOOLEAN
    /\ AggIdle
    /\ TokIdle

Next ==
    \/ Setup
    \/ CredChange
    \/ \E r \in Readers : ReaderLock(r) \/ ReaderReturn(r)
    \/ \E c \in Cycles :
        \/ Trigger(c)
        \/ CheckLock(c)
        \/ CheckApi(c)
        \/ Extract(c)
        \/ TokErrLock(c)
        \/ TokErrSetError(c)
        \/ TokErrClearData(c)
        \/ BillingResponse(c)
        \/ EventsResponse(c)
        \/ OkLock(c)
        \/ OkSetData(c)
        \/ OkClearError(c)
        \/ ApiErrLock(c)
        \/ ApiErrSetError(c)

Spec == Init /\ [][Next]_vars

AggInit ==
    /\ OrchInit
    /\ cred = TRUE
    /\ agg_in \in AggInputs
    /\ agg_hash = <<>>
    /\ agg_out = None
    /\ TokIdle

AggNext == AggRun

AggSpec == AggInit /\ [][AggNext]_vars

(***************************************************************************)
(* extract_token() on its own: the database state is drawn at the start    *)
(***************************************************************************)
\* one call of extract_token()
TokRun ==
    /\ tok_out' = Some(extract_token(tok_db))
    /\ UNCHANGED <<tok_db, orch_vars, agg_vars>>

TokInit ==
    /\ OrchInit
    /\ cred = TRUE
    /\ AggIdle
    /\ tok_db \in TokDbStates
    /\ tok_out = None

TokNext == TokRun

TokSpec == TokInit /\ [][TokNext]_vars

(***************************************************************************)
(* The aggregation on events with any sign: the fields of TokenUsage are   *)
(* Option<i64> and Option<f64>, so the deserializer accepts negative token *)
(* counts and negative costs                                               *)
(***************************************************************************)
SignedTokenUsages ==
    { Some([input_tokens |-> Some(1), output_tokens |-> Some(2),
            cache_write_tokens |-> None, cache_read_tokens |-> None,
            total_cents |-> Some(5)]),
      Some([input_tokens |-> Some(-2), output_tokens |-> None,
            cache_write_tokens |-> None, cache_read_tokens |-> None,
            total_cents |-> Some(0)]),
      Some([input_tokens |-> Some(1), output_tokens |-> None,
            cache_write_tokens |-> None, cache_read_tokens |-> None,
            total_cents |-> Some(-5)]) }

SignedUsageEvents ==
    [timestamp : TimestampStrings, model : {Some("gpt")},
     token_usage : SignedTokenUsages]

\* Local::now() is read after the usage-events fetch: local midnight is the
\* day before now, now itself, or (the fetch went over midnight) after now
SignedStartOfTodayOffsets == {-1, 0, 1}

SignedAggInputs ==
    { [billing_start |-> 0, now |-> n, start_of_today |-> n - d, events |-> ev] :
        n \in NowValues, d \in SignedStartOfTodayOffsets,
        ev \in SeqsUpTo(SignedUsageEvents, MaxEvents) }

SignedAggInit ==
    /\ OrchInit
    /\ cred = TRUE
    /\ agg_in \in SignedAggInputs
    /\ agg_hash = <<>>
    /\ agg_out = None
    /\ TokIdle

SignedAggSpec == SignedAggInit /\ [][AggNext]_vars

(***************************************************************************)
(* Properties of the shared state (checked under Spec)                     *)
(***************************************************************************)
\* the shared state can be read: no refresh cycle holds the Mutex
Visible == lock \in {"free"} \cup Readers

\* no refresh cycle is between its entry and its return
Quiescent == lock = "free" /\ \A c \in Cycles : ~Running(c)

\* every UsageDisplayData an aggregation can produce from the endpoints' answers
Snapshots ==
    UNION { { Aggregate(b, n, n - d, ev, o) :
                o \in IterationOrders(ByModelKeys(b, n, n - d, ev)) } :
            b \in ApiBillingStarts, n \in NowValues, d \in StartOfTodayOffsets,
            ev \in ApiEventLists }

\* C1: whenever the shared state can be read, getUsageData() and getError()
\* are not both present.
C1_DataAndErrorExclusive ==
    Visible => ~(get_usage_data /= None /\ get_error /= None)

\* C2: every refresh cycle goes on from the check of the shared state to the
\* credential extractor, whatever the shared state is (so a cycle triggered
\* once the credential is available extracts, fetches and recovers).
C2_EveryTriggerExtracts ==
    [][\A c \in Cycles :
          (pc[c] = "check_api" /\ pc'[c] /= "check_api") => pc'[c] = "extract"]_vars

\* C3: a cycle whose extraction fails goes to the token-error publish without
\* sending a request; it holds the Mutex from its first write to its last, and
\* when it releases the Mutex the error is the token error and the data is none.
C3_TokenFailurePublish ==
    /\ [](\A c \in Cycles : pc[c] \in {"tokerr_error", "tokerr_data"} => lock = c)
    /\ [][\A c \in Cycles :
            /\ (pc[c] = "extract" /\ ~cred /\ pc'[c] /= "extract")
                    => (pc'[c] = "tokerr_lock" /\ net_calls'[c] = 0)
            /\ (pc[c] \in {"tokerr_lock", "tokerr_error", "tokerr_data"})
                    => (pc'[c] \in {"tokerr_lock", "tokerr_error", "tokerr_data", Rest(c)}
                        /\ net_calls[c] = 0)
            /\ (pc[c] = "tokerr_data" /\ pc'[c] = Rest(c))
                    => (lock' = "free" /\ error' = Some(TokenErrorMsg)
                        /\ last_data' = None)]_vars

\* a token-error publish has just cleared data that was published before
C3_Witness ==
    /\ last_pub.kind = "tokerr" /\ last_pub.had_data
    /\ lock = "free" /\ get_usage_data = None /\ get_error = Some(TokenErrorMsg)

\* C4: the step that ends a successful cycle's publish leaves that cycle's
\* snapshot as last_data, no error and the Mutex free; and as long as no other
\* publish has finished since, readers get that snapshot and no error.
C4_SuccessPublish ==
    /\ [][\A c \in Cycles :
            (pc[c] = "ok_error" /\ pc'[c] = Rest(c))
                => (last_data' = local[c].data /\ local[c].data /= None
                    /\ error' = None /\ lock' = "free")]_vars
    /\ []((Visible /\ last_pub.kind = "ok")
            => (get_usage_data = last_pub.data /\ get_error = None))

\* a successful publish has replaced an earlier error, and a reader reads
C4_Witness ==
    /\ last_pub.kind = "ok" /\ last_pub.had_error
    /\ lock = "get_error" /\ get_error = None /\ get_usage_data = last_pub.data

\* C5: a cycle suspended on the billing-period fetch or on the usage-events
\* fetch does not own the Mutex.
C5_NoLockAcrossNetwork ==
    \A c \in Cycles : pc[c] \in {"fetch_billing", "fetch_events"} => lock /= c

\* a reader holds the Mutex while the requests of two cycles are in flight
C5_Witness ==
    \E c, d \in Cycles :
        /\ pc[c] = "fetch_events" /\ pc[d] = "fetch_billing"
        /\ lock \in Readers

\* what the publish that finished last assigned is what the state holds
LastWriteStands ==
    /\ last_pub.kind = "ok" => (last_data = last_pub.data /\ error = None)
    /\ last_pub.kind = "tokerr" => (last_data = None /\ error = Some(TokenErrorMsg))
    /\ last_pub.kind = "apierr" => error = Some(ApiErrorMsg)

\* C6: every assignment of last_data is made by the cycle holding the Mutex
\* and stores none or that cycle's own aggregation result as a whole; what
\* getUsageData() returns is none or one complete aggregation result; and when
\* no cycle is running, the state holds what the last finished publish wrote.
C6_WholesaleLastWriteWins ==
    /\ [][last_data' /= last_data
            => \E c \in Cycles :
                 /\ lock = c
                 /\ last_data' = None \/ last_data' = local[c].data]_vars
    /\ [](lock = "get_usage_data"
            => (get_usage_data = None \/ Unwrap(get_usage_data) \in Snapshots))
    /\ [](Quiescent => LastWriteStands)

\* two cycles race with different snapshots: one is inside its publish, the
\* other waits for the Mutex to publish
C6_Witness ==
    \E c, d \in Cycles :
        /\ c /= d
        /\ pc[c] = "ok_error" /\ pc[d] = "ok_lock"
        /\ local[c].data /= local[d].data
        /\ last_data = local[c].data

(***************************************************************************)
(* Properties of the aggregation (checked under AggSpec)                   *)
(***************************************************************************)
AggOut == Unwrap(agg_out)
AggEvents == agg_in.events

\* the events whose time is at or after bound
Members(bound) ==
    { i \in 1..Len(AggEvents) : EventDate(AggEvents[i]) >= bound }

RECURSIVE SumCentsOver(_)
SumCentsOver(S) ==
    IF S = {} THEN 0
    ELSE LET i == CHOOSE x \in S : TRUE
         IN  cost_cents(AggEvents[i]) + SumCentsOver(S \ {i})

RECURSIVE SumTokensOver(_)
SumTokensOver(S) ==
    IF S = {} THEN 0
    ELSE LET i == CHOOSE x \in S : TRUE
             t == AggEvents[i].token_usage
         IN  (IF t = None THEN 0 ELSE total_tokens(Unwrap(t)))
                + SumTokensOver(S \ {i})

RECURSIVE SumOfCounts(_, _)
SumOfCounts(items, n) ==
    IF n = 0 THEN 0 ELSE items[n].request_count + SumOfCounts(items, n - 1)

\* C7: the request counts of the line items add up to the number of events
\* with eventTime >= billingStart, and totalRequests is that number.
C7_RequestCountSum ==
    agg_out /= None =>
        /\ SumOfCounts(AggOut.line_items, Len(AggOut.line_items))
                = Cardinality(Members(agg_in.billing_start))
        /\ AggOut.total_requests = Cardinality(Members(agg_in.billing_start))

\* of two events one is before the billing start and is left out
C7_Witness ==
    /\ agg_out /= None
    /\ Len(AggEvents) = 2
    /\ Cardinality(Members(agg_in.billing_start)) = 1
    /\ Len(AggOut.line_items) = 1
    /\ AggOut.total_requests = 1

SortedByCostDesc(items) ==
    \A i \in 1..(Len(items) - 1) : items[i].cost_dollars >= items[i + 1].cost_dollars

\* C8: the line items are in descending order of cost, and two runs on the
\* same input give the same order of line items, ties included.
C8_SortedAndDeterministic ==
    /\ [](agg_out /= None => SortedByCostDesc(AggOut.line_items))
    /\ [][(agg_out /= None /\ agg_out' /= None)
            => Unwrap(agg_out').line_items = Unwrap(agg_out).line_items]_vars

\* the events whose timestamp string does not parse
Malformed == { i \in 1..Len(AggEvents) : ~ParseF64(AggEvents[i].timestamp).ok }

WellFormedFrom(bound) == Members(bound) \ Malformed

\* the batch with every malformed timestamp replaced by "0"
EpochSubstituted ==
    [i \in 1..Len(AggEvents) |->
        IF i \in Malformed THEN [AggEvents[i] EXCEPT !.timestamp = <<"0">>]
        ELSE AggEvents[i]]

\* C9: a malformed timestamp counts as the epoch: the result is the one of the
\* batch with "0" in its place; the malformed events are in none of today,
\* last 7 days, last 30 days, and in the billing totals and the per-model
\* breakdown iff billingStart <= 0.
C9_MalformedTimestamp ==
    agg_out /= None =>
        /\ AggOut = Aggregate(agg_in.billing_start, agg_in.now,
                              agg_in.start_of_today, EpochSubstituted, agg_hash)
        /\ AggOut.today.requests
                = Cardinality(WellFormedFrom(agg_in.start_of_today))
        /\ AggOut.last7_days.requests
                = Cardinality(WellFormedFrom(agg_in.now - SevenDays))
        /\ AggOut.last30_days.requests
                = Cardinality(WellFormedFrom(agg_in.now - ThirtyDays))
        /\ AggOut.total_requests
                = Cardinality(WellFormedFrom(agg_in.billing_start))
                    + (IF agg_in.billing_start <= 0 THEN Cardinality(Malformed) ELSE 0)
        /\ SumOfCounts(AggOut.line_items, Len(AggOut.line_items))
                = AggOut.total_requests

\* a malformed event billed from the epoch next to a well-formed one of today
C9_Witness ==
    /\ agg_out /= None
    /\ Cardinality(Malformed) = 1
    /\ agg_in.billing_start <= 0
    /\ AggOut.total_requests = 2
    /\ AggOut.today.requests = 1
    /\ AggOut.last30_days.requests = 1

WindowHolds(requests, cents, tokens, bound) ==
    /\ requests = Cardinality(Members(bound))
    /\ cents = SumCentsOver(Members(bound))
    /\ tokens = SumTokensOver(Members(bound))

\* C10: each accumulator holds the count, the cost and the tokens of exactly
\* the events at or after its own bound: billingStart, startOfToday,
\* now - 7d, now - 30d.
C10_WindowMembership ==
    agg_out /= None =>
        /\ WindowHolds(AggOut.total_requests, AggOut.total_spend_dollars,
                       AggOut.total_tokens, agg_in.billing_start)
        /\ WindowHolds(AggOut.today.requests, AggOut.today.spend_dollars,
                       AggOut.today.tokens, agg_in.start_of_today)
        /\ WindowHolds(AggOut.last7_days.requests, AggOut.last7_days.spend_dollars,
                       AggOut.last7_days.tokens, agg_in.now - SevenDays)
        /\ WindowHolds(AggOut.last30_days.requests, AggOut.last30_days.spend_dollars,
                       AggOut.last30_days.tokens, agg_in.now - ThirtyDays)

\* an event before the billing start but within 30 days is left out of the
\* billing totals and counted in last 30 days; another lies on the start of
\* today exactly
C10_Witness ==
    /\ agg_out /= None
    /\ \E i, j \in 1..Len(AggEvents) :
        /\ EventDate(AggEvents[i]) < agg_in.billing_start
        /\ EventDate(AggEvents[i]) = agg_in.now - ThirtyDays
        /\ EventDate(AggEvents[j]) = agg_in.start_of_today
    /\ AggOut.total_requests = 1
    /\ AggOut.last30_days.requests = 2
    /\ AggOut.today.requests = 1
    /\ AggOut.last30_days.tokens > AggOut.total_tokens

(***************************************************************************)
(* Properties of the credential extractor (checked under TokSpec)          *)
(***************************************************************************)
\* piece is the second of the pieces that sep cuts s into: it starts behind
\* the first sep, holds no sep, and ends at the next sep or at the end of s
IsSecondPiece(s, sep, piece) ==
    \E i \in 1..Len(s) :
        /\ s[i] = sep
        /\ \A j \in 1..(i - 1) : s[j] /= sep
        /\ i + Len(piece) <= Len(s)
        /\ piece = SubSeq(s, i + 1, i + Len(piece))
        /\ \A j \in 1..Len(piece) : piece[j] /= sep
        /\ (i + Len(piece) = Len(s) \/ s[i + Len(piece) + 1] = sep)

HasPipe(s) == \E i \in 1..Len(s) : s[i] = "|"

TokOut == Unwrap(tok_out)

\* C11: when the stored JWT has a second dot-separated segment that is the
\* base64url text of a JSON object with the string sub claim s, extract_token
\* returns Ok; the user id is the second '|'-separated piece of s when s holds
\* a '|' and s itself when it holds none; and the session token is the user
\* id, then %3A%3A, then the JWT as stored.
C11_UserIdAndSessionToken ==
    (tok_out /= None /\ tok_db.kind = "row") =>
        \A s \in SubClaims :
            \A text \in {PayloadOnlySub(s), PayloadExpSub(s)} :
                IsSecondPiece(tok_db.jwt, ".", Base64Url(text)) =>
                    /\ TokOut.ok
                    /\ IF HasPipe(s)
                       THEN IsSecondPiece(s, "|", TokOut.value.user_id)
                       ELSE TokOut.value.user_id = s
                    /\ TokOut.value.session_token
                         = TokOut.value.user_id
                             \o <<"%", "3", "A", "%", "3", "A">> \o tok_db.jwt

\* the sub claim |a| (three pieces) gave the user id a
C11_Witness ==
    /\ tok_out /= None
    /\ tok_db.kind = "row"
    /\ tok_db.jwt = Jwt3(PayloadOnlySub(<<"|", "a", "|">>))
    /\ TokOut.ok
    /\ TokOut.value.user_id = <<"a">>
    /\ TokOut.value.session_token
         = <<"a", "%", "3", "A", "%", "3", "A">> \o tok_db.jwt

(***************************************************************************)
(* The API-error arm (checked under Spec)                                  *)
(***************************************************************************)
\* where a cycle that ends in the API-error publish has been since its entry
FailedFetchPath ==
    {"check_lock", "check_api", "extract", "fetch_billing", "fetch_events",
     "apierr_lock", "apierr_error"}

\* C12: a cycle whose billing-period or usage-events fetch fails goes to the
\* API-error publish; none of its steps from entry to return changes
\* last_data or api, the only write is error = the API error at the step that
\* releases the Mutex; so readers then get the API error, and a snapshot
\* exactly when one was there when the cycle took the Mutex.
C12_ApiFailureKeepsData ==
    /\ [](\A c \in Cycles : pc[c] = "apierr_error" => lock = c)
    /\ [][\A c \in Cycles :
            /\ (pc'[c] = "apierr_lock" /\ pc[c] /= "apierr_lock")
                    => pc[c] \in {"fetch_billing", "fetch_events"}
            /\ (pc[c] = "apierr_lock" /\ pc'[c] /= "apierr_lock")
                    => pc'[c] = "apierr_error"
            /\ (pc[c] \in FailedFetchPath /\ pc'[c] /= pc[c])
                    => (last_data' = last_data /\ api' = api)
            /\ (pc[c] \in FailedFetchPath \ {"apierr_error"} /\ pc'[c] /= pc[c])
                    => error' = error
            /\ (pc[c] = "apierr_error" /\ pc'[c] /= "apierr_error")
                    => (pc'[c] = Rest(c) /\ error' = Some(ApiErrorMsg)
                        /\ lock' = "free")]_vars
    /\ []((Visible /\ last_pub.kind = "apierr")
            => (get_error = Some(ApiErrorMsg)
                /\ (get_usage_data /= None) = last_pub.had_data))

\* a reader gets the snapshot of an earlier cycle after an API-error publish
C12_Witness ==
    /\ lock = "get_usage_data"
    /\ last_pub.kind = "apierr" /\ last_pub.had_data
    /\ get_usage_data /= None /\ Unwrap(get_usage_data) \in Snapshots
    /\ get_error = Some(ApiErrorMsg)

(***************************************************************************)
(* Nesting of the trailing windows (checked under SignedAggSpec)           *)
(***************************************************************************)
Chain(a, b, c) == a <= b /\ b <= c

EventTokens(event) ==
    IF event.token_usage = None THEN 0
    ELSE total_tokens(Unwrap(event.token_usage))

AllCostsNonNegative ==
    \A i \in 1..Len(AggEvents) : cost_cents(AggEvents[i]) >= 0

AllTokensNonNegative ==
    \A i \in 1..Len(AggEvents) : EventTokens(AggEvents[i]) >= 0

RequestsNested ==
    Chain(AggOut.today.requests, AggOut.last7_days.requests,
          AggOut.last30_days.requests)

TokensNested ==
    Chain(AggOut.today.tokens, AggOut.last7_days.tokens,
          AggOut.last30_days.tokens)

SpendNested ==
    Chain(AggOut.today.spend_dollars, AggOut.last7_days.spend_dollars,
          AggOut.last30_days.spend_dollars)

\* startOfToday >= now - 7d >= now - 30d, and an event of a narrower window
\* is in each wider one
BoundsNested ==
    /\ agg_in.start_of_today >= agg_in.now - SevenDays
    /\ agg_in.now - SevenDays >= agg_in.now - ThirtyDays
    /\ Members(agg_in.start_of_today) \subseteq Members(agg_in.now - SevenDays)
    /\ Members(agg_in.now - SevenDays) \subseteq Members(agg_in.now - ThirtyDays)

=============================================================================
